---- MODULE Spec2Model ----
(***************************************************************************)
(* Model of bgw_flipper_ir_serial.c: the infrared worker callback, the     *)
(* view port's input and draw callbacks, and the application thread, over  *)
(* the shared FlameTunnelState.                                            *)
(***************************************************************************)
EXTENDS Integers, Sequences, FiniteSets, TLC

VARIABLES
    \* FlameTunnelState (lines 17-26)
    running, log_to_file, last_rng, in_menu, back_pressed_time, ok_pressed_time,
    mutex,          \* holder of st.mutex: "none" or "ir" (only ir_callback acquires it)
    serial_handle,  \* st.serial_handle: "open" or "released"
    \* the millisecond tick counter read by furi_get_tick()
    startTick,      \* counter value when the application starts
    clock,          \* milliseconds elapsed since the application started
    advances,       \* how many times the clock has advanced
    \* view port input callback (input_cb)
    ev,             \* the event input_cb handled last
    keyDown,        \* per key: pressed and not yet released
    pressClock,     \* per key: the clock at its last press
    gesture,        \* what the last event amounted to
    \* infrared worker callback (ir_callback)
    irPc, irSig, irHw, irCyc, irRng, irBuf, irEvents,
    irLog,          \* what lines 44-51 did in this callback
    serialOut,      \* buffers received by the serial output, in order
    lastTx,         \* the value last handed to furi_hal_serial_tx, << >> before the first
    logFile,        \* content of /ext/flame_tunnel.log
    logRes,         \* storage records, files and streams process_ir holds
    \* view port draw callback (draw)
    drawPc, canvas,
    \* application thread (bgw_flipper_ir_serial_app)
    mainPc, workerOn, vpOn, mutexLive,
    released        \* the resources the application thread has released, in order

vars == << running, log_to_file, last_rng, in_menu, back_pressed_time, ok_pressed_time,
           mutex, serial_handle, startTick, clock, advances,
           ev, keyDown, pressClock, gesture,
           irPc, irSig, irHw, irCyc, irRng, irBuf, irEvents, irLog,
           serialOut, lastTx, logFile, logRes,
           drawPc, canvas, mainPc, workerOn, vpOn, mutexLive, released >>

stateVars == << running, log_to_file, last_rng, in_menu, back_pressed_time, ok_pressed_time >>
clockVars == << startTick, clock, advances >>
inputVars == << ev, keyDown, pressClock, gesture >>
irVars    == << irPc, irSig, irHw, irCyc, irRng, irBuf, irEvents, irLog >>
sinkVars  == << serialOut, lastTx, logFile, logRes >>
drawVars  == << drawPc, canvas >>
mainVars  == << mainPc, workerOn, vpOn, mutexLive, released >>

----------------------------------------------------------------------------
\* Program constants

HOLD_TIME_MS == 1000
MAX_BUF == 64
HALF_BITS == 16
HALF_MOD == 65536
DISPLAY_WIDTH == 6
DISPLAY_BUF == 32

\* Bounds of the model

MaxAdvance == 2
MaxIrEvents == 1
MaxLogEvents == 2

----------------------------------------------------------------------------
\* 32-bit unsigned arithmetic. A uint32_t is the pair << high half, low half >>
\* of its 16-bit halves, so that every operation keeps the full 32-bit width.

U32(n) == << n \div HALF_MOD, n % HALF_MOD >>

U32_MAX == << HALF_MOD - 1, HALF_MOD - 1 >>

RECURSIVE XorBits(_, _, _)
XorBits(a, b, n) ==
    IF n = 0 THEN 0
    ELSE (((a % 2) + (b % 2)) % 2) + 2 * XorBits(a \div 2, b \div 2, n - 1)

\* the ^ operator on uint32_t
Xor32(a, b) == << XorBits(a[1], b[1], HALF_BITS), XorBits(a[2], b[2], HALF_BITS) >>

\* the + operator on uint32_t (carry out of bit 31 is dropped)
Add32(a, b) ==
    LET lo == a[2] + b[2]
        hi == a[1] + b[1] + (lo \div HALF_MOD)
    IN << hi % HALF_MOD, lo % HALF_MOD >>

\* the - operator on uint32_t (borrow out of bit 31 is dropped)
Sub32(a, b) ==
    LET lo == a[2] - b[2]
        hi == (a[1] - b[1]) - (IF lo < 0 THEN 1 ELSE 0)
    IN << (hi + HALF_MOD) % HALF_MOD, (lo + HALF_MOD) % HALF_MOD >>

\* the >= operator on uint32_t
Geq32(a, b) == a[1] > b[1] \/ (a[1] = b[1] /\ a[2] >= b[2])

\* a / 10 and a % 10 on uint32_t
Div10(a) ==
    LET mid == ((a[1] % 10) * HALF_MOD) + a[2]
    IN << a[1] \div 10, mid \div 10 >>

Mod10(a) == (((a[1] % 10) * HALF_MOD) + a[2]) % 10

\* furi_get_tick(): the free-running 32-bit millisecond counter
furi_get_tick == Add32(startTick, U32(clock))

----------------------------------------------------------------------------
\* Inputs the environment draws from

StartTicks == { U32(0), << HALF_MOD - 1, HALF_MOD - 500 >> }
Deltas == {999, 1000}
Signals == { << >>, << U32(100), U32(200), U32(150) >> }
HwSeeds == { U32(4096) }
CycCnts == { U32(15) }
\* a short and a long record: 4111 and 4294963184
LogSignals == { << >>, << U32_MAX >> }

MixSignals ==
    { << >>,
      << U32(100), U32(200), U32(150) >>,
      << U32(7), U32_MAX >>,
      << U32_MAX >>,
      << U32(0), U32(0) >>,
      << U32(65535), U32(65536), U32(1), U32_MAX >> }
MixSeeds == { U32(0), U32(4096), U32_MAX, << 32768, 1 >>, << 43690, 21845 >> }
MixCycs == { U32(0), U32(15), U32_MAX, << 21845, 43690 >> }

TrackedKeys == {"Back", "Ok"}
InputEvents ==
    [type : {"Press", "Release"}, key : TrackedKeys]
        \cup { [type |-> "Release", key |-> "Up"], [type |-> "Short", key |-> "Ok"] }
NoEvent == [type |-> "None", key |-> "None"]

----------------------------------------------------------------------------
\* generate_rng (lines 29-36)

RECURSIVE rng_loop(_, _, _)
rng_loop(times, i, seed) ==
    IF i < Len(times)
    THEN rng_loop(times, i + 1, Xor32(seed, Add32(times[i + 1], U32(i))))
    ELSE seed

\* generate_rng with the index left out of the fold (seed ^= times[i])
RECURSIVE rng_loop_no_index(_, _, _)
rng_loop_no_index(times, i, seed) ==
    IF i < Len(times)
    THEN rng_loop_no_index(times, i + 1, Xor32(seed, times[i + 1]))
    ELSE seed

generate_rng_no_index(times, hw, cyc) == rng_loop_no_index(times, 0, Xor32(hw, cyc))

generate_rng(times, hw, cyc) == rng_loop(times, 0, Xor32(hw, cyc))

----------------------------------------------------------------------------
\* snprintf conversions (lines 41 and 76)

DigitChars == << "0", "1", "2", "3", "4", "5", "6", "7", "8", "9" >>

RECURSIVE Decimal(_)
Decimal(n) ==
    IF n[1] = 0 /\ n[2] < 10 THEN << DigitChars[n[2] + 1] >>
    ELSE Append(Decimal(Div10(n)), DigitChars[Mod10(n) + 1])

RECURSIVE ZeroPad(_, _)
ZeroPad(s, width) == IF Len(s) >= width THEN s ELSE ZeroPad(<< "0" >> \o s, width)

Truncate(s, size) == IF Len(s) > size - 1 THEN SubSeq(s, 1, size - 1) ELSE s

\* snprintf(buf, MAX_BUF, "RNG:%lu\n", rng)
format_rng(rng) == Truncate(<< "R", "N", "G", ":" >> \o Decimal(rng) \o << "\n" >>, MAX_BUF)

\* snprintf(buf, sizeof(buf), "%06lu", last_rng)
format_display(rng) == Truncate(ZeroPad(Decimal(rng), DISPLAY_WIDTH), DISPLAY_BUF)

\* stream_write on a stream opened with FSAM_WRITE, FSOM_OPEN_ALWAYS: the
\* existing file is opened (or created) with the position at its start
stream_write_at_start(file, buf) ==
    IF Len(buf) >= Len(file) THEN buf
    ELSE buf \o SubSeq(file, Len(buf) + 1, Len(file))

----------------------------------------------------------------------------
\* input_cb, lines 87-98: the fields after one event e handled at tick t

Fields(r, l, m, b, o) ==
    [running |-> r, log_to_file |-> l, in_menu |-> m,
     back_pressed_time |-> b, ok_pressed_time |-> o]

\* input_cb with one line changed, each the way a slip would change it

\* line 92 as s->running = !s->running
input_cb_toggles_running(s, e, t) ==
    IF e.type = "Press"
    THEN [s EXCEPT !.back_pressed_time = IF e.key = "Back" THEN t ELSE @,
                   !.ok_pressed_time = IF e.key = "Ok" THEN t ELSE @]
    ELSE IF e.type = "Release"
    THEN IF e.key = "Back" /\ Geq32(Sub32(t, s.back_pressed_time), U32(HOLD_TIME_MS))
         THEN [s EXCEPT !.running = ~s.running]
         ELSE IF e.key = "Ok" /\ Geq32(Sub32(t, s.ok_pressed_time), U32(HOLD_TIME_MS))
         THEN [s EXCEPT !.in_menu = ~s.in_menu]
         ELSE IF s.in_menu /\ e.key = "Ok"
         THEN [s EXCEPT !.log_to_file = ~s.log_to_file]
         ELSE s
    ELSE s

\* lines 91 and 93 with > in place of >=
input_cb_strict_hold(s, e, t) ==
    IF e.type = "Press"
    THEN [s EXCEPT !.back_pressed_time = IF e.key = "Back" THEN t ELSE @,
                   !.ok_pressed_time = IF e.key = "Ok" THEN t ELSE @]
    ELSE IF e.type = "Release"
    THEN IF e.key = "Back" /\ Geq32(Sub32(t, s.back_pressed_time), U32(HOLD_TIME_MS + 1))
         THEN [s EXCEPT !.running = FALSE]
         ELSE IF e.key = "Ok" /\ Geq32(Sub32(t, s.ok_pressed_time), U32(HOLD_TIME_MS + 1))
         THEN [s EXCEPT !.in_menu = ~s.in_menu]
         ELSE IF s.in_menu /\ e.key = "Ok"
         THEN [s EXCEPT !.log_to_file = ~s.log_to_file]
         ELSE s
    ELSE s

\* lines 88-89 without the tests of ev->key
input_cb_press_any_key(s, e, t) ==
    IF e.type = "Press"
    THEN [s EXCEPT !.back_pressed_time = t, !.ok_pressed_time = t]
    ELSE IF e.type = "Release"
    THEN IF e.key = "Back" /\ Geq32(Sub32(t, s.back_pressed_time), U32(HOLD_TIME_MS))
         THEN [s EXCEPT !.running = FALSE]
         ELSE IF e.key = "Ok" /\ Geq32(Sub32(t, s.ok_pressed_time), U32(HOLD_TIME_MS))
         THEN [s EXCEPT !.in_menu = ~s.in_menu]
         ELSE IF s.in_menu /\ e.key = "Ok"
         THEN [s EXCEPT !.log_to_file = ~s.log_to_file]
         ELSE s
    ELSE s

\* line 95 without the test of s->in_menu
input_cb_no_menu_test(s, e, t) ==
    IF e.type = "Press"
    THEN [s EXCEPT !.back_pressed_time = IF e.key = "Back" THEN t ELSE @,
                   !.ok_pressed_time = IF e.key = "Ok" THEN t ELSE @]
    ELSE IF e.type = "Release"
    THEN IF e.key = "Back" /\ Geq32(Sub32(t, s.back_pressed_time), U32(HOLD_TIME_MS))
         THEN [s EXCEPT !.running = FALSE]
         ELSE IF e.key = "Ok" /\ Geq32(Sub32(t, s.ok_pressed_time), U32(HOLD_TIME_MS))
         THEN [s EXCEPT !.in_menu = ~s.in_menu]
         ELSE IF e.key = "Ok"
         THEN [s EXCEPT !.log_to_file = ~s.log_to_file]
         ELSE s
    ELSE s

\* line 95 as a plain if: the logging branch also runs after the mode branch
input_cb_falls_through(s, e, t) ==
    IF e.type = "Press"
    THEN [s EXCEPT !.back_pressed_time = IF e.key = "Back" THEN t ELSE @,
                   !.ok_pressed_time = IF e.key = "Ok" THEN t ELSE @]
    ELSE IF e.type = "Release"
    THEN IF e.key = "Back" /\ Geq32(Sub32(t, s.back_pressed_time), U32(HOLD_TIME_MS))
         THEN [s EXCEPT !.running = FALSE]
         ELSE IF e.key = "Ok" /\ Geq32(Sub32(t, s.ok_pressed_time), U32(HOLD_TIME_MS))
         THEN [s EXCEPT !.in_menu = ~s.in_menu,
                        !.log_to_file = IF ~s.in_menu THEN ~s.log_to_file ELSE @]
         ELSE IF s.in_menu /\ e.key = "Ok"
         THEN [s EXCEPT !.log_to_file = ~s.log_to_file]
         ELSE s
    ELSE s

\* lines 91 and 93 comparing the tick values as they stand: a release whose
\* tick is below the recorded press tick is never held
input_cb_raw_compare(s, e, t) ==
    IF e.type = "Press"
    THEN [s EXCEPT !.back_pressed_time = IF e.key = "Back" THEN t ELSE @,
                   !.ok_pressed_time = IF e.key = "Ok" THEN t ELSE @]
    ELSE IF e.type = "Release"
    THEN IF /\ e.key = "Back"
            /\ Geq32(t, s.back_pressed_time)
            /\ Geq32(Sub32(t, s.back_pressed_time), U32(HOLD_TIME_MS))
         THEN [s EXCEPT !.running = FALSE]
         ELSE IF /\ e.key = "Ok"
                 /\ Geq32(t, s.ok_pressed_time)
                 /\ Geq32(Sub32(t, s.ok_pressed_time), U32(HOLD_TIME_MS))
         THEN [s EXCEPT !.in_menu = ~s.in_menu]
         ELSE IF s.in_menu /\ e.key = "Ok"
         THEN [s EXCEPT !.log_to_file = ~s.log_to_file]
         ELSE s
    ELSE s

\* input_cb as written
input_cb(s, e, t) ==
    IF e.type = "Press"
    THEN [s EXCEPT !.back_pressed_time = IF e.key = "Back" THEN t ELSE @,
                   !.ok_pressed_time = IF e.key = "Ok" THEN t ELSE @]
    ELSE IF e.type = "Release"
    THEN IF e.key = "Back" /\ Geq32(Sub32(t, s.back_pressed_time), U32(HOLD_TIME_MS))
         THEN [s EXCEPT !.running = FALSE]
         ELSE IF e.key = "Ok" /\ Geq32(Sub32(t, s.ok_pressed_time), U32(HOLD_TIME_MS))
         THEN [s EXCEPT !.in_menu = ~s.in_menu]
         ELSE IF s.in_menu /\ e.key = "Ok"
         THEN [s EXCEPT !.log_to_file = ~s.log_to_file]
         ELSE s
    ELSE s

\* The gesture the event amounts to, from the key's press/release history and
\* the time that really elapsed since its press
Gesture(e, down, elapsed) ==
    IF e.key \notin TrackedKeys THEN "other"
    ELSE IF e.type = "Press" THEN "press"
    ELSE IF e.type # "Release" THEN "other"
    ELSE IF ~down THEN "spurious"
    ELSE IF elapsed >= HOLD_TIME_MS THEN "held"
    ELSE "short"

----------------------------------------------------------------------------
\* The struct as lines 104-112 initialise it, with the mutex allocated, and
\* the callbacks, the sinks and the tick counter at rest

InitState ==
    /\ running = TRUE
    /\ log_to_file = FALSE
    /\ last_rng = U32(0)
    /\ in_menu = FALSE
    /\ back_pressed_time = U32(0)
    /\ ok_pressed_time = U32(0)
    /\ mutex = "none"
    /\ startTick \in StartTicks
    /\ clock = 0
    /\ advances = 0
    /\ ev = NoEvent
    /\ keyDown = [k \in TrackedKeys |-> FALSE]
    /\ pressClock = [k \in TrackedKeys |-> 0]
    /\ gesture = "none"
    /\ irPc = "idle"
    /\ irSig = << >>
    /\ irHw = U32(0)
    /\ irCyc = U32(0)
    /\ irRng = U32(0)
    /\ irBuf = << >>
    /\ irEvents = 0
    /\ irLog = "none"
    /\ serialOut = << >>
    /\ lastTx = << >>
    /\ logFile = << >>
    /\ logRes = [storage |-> 0, file |-> 0, stream |-> 0]
    /\ drawPc = "idle"
    /\ canvas = << >>
    /\ mutexLive = TRUE
    /\ released = << >>

\* lines 114-127 done: the serial handle is initialised, the view port is
\* attached with its callbacks, the infrared worker receives, and the
\* application enters its loop
Init ==
    /\ InitState
    /\ serial_handle = "open"
    /\ vpOn = TRUE
    /\ workerOn = TRUE
    /\ mainPc = "loop"

\* line 112 done: the struct is initialised and the mutex allocated, nothing
\* else is acquired yet
InitStartup ==
    /\ InitState
    /\ serial_handle = "none"
    /\ vpOn = FALSE
    /\ workerOn = FALSE
    /\ mainPc = "start_serial"

\* The tick counter advances
Tick ==
    /\ advances < MaxAdvance
    /\ \E d \in Deltas : clock' = clock + d
    /\ advances' = advances + 1
    /\ UNCHANGED << stateVars, mutex, serial_handle, startTick, inputVars, irVars, sinkVars,
                    drawVars, mainVars >>

----------------------------------------------------------------------------
\* input_cb (lines 83-99), run by the view port's dispatcher. The handler
\* reads and writes only fields that no other thread writes, so it is one step.

Input ==
    /\ vpOn
    /\ drawPc = "idle"
    /\ \E e \in InputEvents :
          LET t == furi_get_tick
              s == Fields(running, log_to_file, in_menu, back_pressed_time, ok_pressed_time)
              r == input_cb(s, e, t)
          IN /\ ev' = e
             /\ running' = r.running
             /\ log_to_file' = r.log_to_file
             /\ in_menu' = r.in_menu
             /\ back_pressed_time' = r.back_pressed_time
             /\ ok_pressed_time' = r.ok_pressed_time
             /\ IF e.key \in TrackedKeys /\ e.type \in {"Press", "Release"}
                THEN /\ gesture' = Gesture(e, keyDown[e.key], clock - pressClock[e.key])
                     /\ keyDown' = [keyDown EXCEPT ![e.key] = (e.type = "Press")]
                     /\ pressClock' = [pressClock EXCEPT
                                         ![e.key] = IF e.type = "Press" THEN clock ELSE @]
                ELSE /\ gesture' = "other"
                     /\ UNCHANGED << keyDown, pressClock >>
    /\ UNCHANGED << last_rng, mutex, serial_handle, clockVars, irVars, sinkVars, drawVars,
                    mainVars >>

----------------------------------------------------------------------------
\* ir_callback (lines 56-62) and process_ir (lines 39-53), run by the
\* infrared worker

\* lines 57-58: a signal arrives and generate_rng mixes it
IrSignalUpTo(max, sigs, seeds, cycs) ==
    /\ workerOn
    /\ irPc = "idle"
    /\ irEvents < max
    /\ \E sig \in sigs, hw \in seeds, cyc \in cycs :
          /\ irSig' = sig
          /\ irHw' = hw
          /\ irCyc' = cyc
          /\ irRng' = generate_rng(sig, hw, cyc)
    /\ irEvents' = irEvents + 1
    /\ irPc' = "acquire"
    /\ UNCHANGED << stateVars, mutex, serial_handle, clockVars, inputVars, irBuf, irLog, sinkVars,
                    drawVars, mainVars >>

IrSignalFrom(sigs, seeds, cycs) == IrSignalUpTo(MaxIrEvents, sigs, seeds, cycs)

IrSignal == IrSignalFrom(Signals, HwSeeds, CycCnts)

\* signals that arrive while the log is being written
IrSignalLog == IrSignalUpTo(MaxLogEvents, LogSignals, HwSeeds, CycCnts)

\* line 52 moved to the head of process_ir: last_rng is assigned before the
\* writes
IrAcquire_stores_first ==
    /\ irPc = "acquire"
    /\ mutex = "none"
    /\ mutex' = "ir"
    /\ last_rng' = irRng
    /\ irPc' = "tx"
    /\ UNCHANGED << running, log_to_file, in_menu, back_pressed_time, ok_pressed_time,
                    serial_handle, clockVars, inputVars, irSig, irHw, irCyc, irRng,
                    irBuf, irEvents, irLog, sinkVars, drawVars, mainVars >>

\* line 59: furi_mutex_acquire(s->mutex, FuriWaitForever)
IrAcquire ==
    /\ irPc = "acquire"
    /\ mutex = "none"
    /\ mutex' = "ir"
    /\ irPc' = "tx"
    /\ UNCHANGED << stateVars, serial_handle, clockVars, inputVars, irSig, irHw, irCyc, irRng,
                    irBuf, irEvents, irLog, sinkVars, drawVars, mainVars >>

\* lines 40-42 with the serial handle initialised: the buffer is transmitted
IrTx ==
    /\ irPc = "tx"
    /\ serial_handle = "open"
    /\ irBuf' = format_rng(irRng)
    /\ serialOut' = Append(serialOut, irBuf')
    /\ lastTx' = irRng
    /\ irPc' = "log"
    /\ UNCHANGED << stateVars, mutex, serial_handle, clockVars, inputVars, irSig, irHw, irCyc,
                    irRng, irEvents, irLog, logFile, logRes, drawVars, mainVars >>

\* lines 40-42 after lines 134-135 deinitialised and released the handle, or
\* with the null handle of a failed acquisition: the call uses no initialised
\* handle, and the bytes may or may not leave
IrTxReleased ==
    /\ irPc = "tx"
    /\ serial_handle \in {"released", "null"}
    /\ irBuf' = format_rng(irRng)
    /\ \E sent \in BOOLEAN :
          serialOut' = IF sent THEN Append(serialOut, irBuf') ELSE serialOut
    /\ lastTx' = irRng
    /\ irPc' = "log"
    /\ UNCHANGED << stateVars, mutex, serial_handle, clockVars, inputVars, irSig, irHw, irCyc,
                    irRng, irEvents, irLog, logFile, logRes, drawVars, mainVars >>

\* The calls of lines 45-50 on what process_ir holds: references to the
\* storage record, open files, allocated streams
furi_record_open(r) == [r EXCEPT !.storage = @ + 1]
file_stream_alloc(r) == [r EXCEPT !.stream = @ + 1]
file_stream_open(r, opened) == IF opened THEN [r EXCEPT !.file = @ + 1] ELSE r
file_stream_close(r) == IF r.file > 0 THEN [r EXCEPT !.file = @ - 1] ELSE r
furi_record_close(r) == [r EXCEPT !.storage = @ - 1]

\* lines 44-51 returning from process_ir when the file does not open: line 52
\* is not reached
IrLog_returns_on_failure ==
    /\ irPc = "log"
    /\ IF log_to_file
       THEN \E opened \in BOOLEAN :
               /\ logFile' = IF opened THEN stream_write_at_start(logFile, irBuf) ELSE logFile
               /\ irLog' = IF opened THEN "written" ELSE "failed"
               /\ logRes' = furi_record_close(file_stream_close(file_stream_open(
                                file_stream_alloc(furi_record_open(logRes)), opened)))
               /\ irPc' = IF opened THEN "store" ELSE "release"
       ELSE /\ logFile' = logFile
            /\ irLog' = "skipped"
            /\ logRes' = logRes
            /\ irPc' = "store"
    /\ UNCHANGED << stateVars, mutex, serial_handle, clockVars, inputVars, irSig, irHw, irCyc,
                    irRng, irBuf, irEvents, serialOut, lastTx, drawVars, mainVars >>

\* lines 44-51: with logging on, the buffer is written to the log file; the
\* results of opening and writing are not looked at
IrLog ==
    /\ irPc = "log"
    /\ IF log_to_file
       THEN \E opened \in BOOLEAN :
               /\ logFile' = IF opened THEN stream_write_at_start(logFile, irBuf) ELSE logFile
               /\ irLog' = IF opened THEN "written" ELSE "failed"
               /\ logRes' = furi_record_close(file_stream_close(file_stream_open(
                                file_stream_alloc(furi_record_open(logRes)), opened)))
       ELSE /\ logFile' = logFile
            /\ irLog' = "skipped"
            /\ logRes' = logRes
    /\ irPc' = "store"
    /\ UNCHANGED << stateVars, mutex, serial_handle, clockVars, inputVars, irSig, irHw, irCyc,
                    irRng, irBuf, irEvents, serialOut, lastTx, drawVars, mainVars >>

\* line 52: s->last_rng = rng
IrStore ==
    /\ irPc = "store"
    /\ last_rng' = irRng
    /\ irPc' = "release"
    /\ UNCHANGED << running, log_to_file, in_menu, back_pressed_time, ok_pressed_time,
                    mutex, serial_handle, clockVars, inputVars, irSig, irHw, irCyc, irRng, irBuf,
                    irEvents, irLog, sinkVars, drawVars, mainVars >>

\* line 61: furi_mutex_release(s->mutex)
IrRelease ==
    /\ irPc = "release"
    /\ mutex' = "none"
    /\ irPc' = "idle"
    /\ irSig' = << >>
    /\ irHw' = U32(0)
    /\ irCyc' = U32(0)
    /\ irRng' = U32(0)
    /\ irBuf' = << >>
    /\ irLog' = "none"
    /\ UNCHANGED << stateVars, serial_handle, clockVars, inputVars, irEvents, sinkVars,
                    drawVars, mainVars >>

----------------------------------------------------------------------------
\* draw (lines 65-80), run by the view port's dispatcher while the view port
\* is attached

\* lines 66-70: the canvas is cleared and s->in_menu is read
DrawBegin ==
    /\ vpOn
    /\ drawPc = "idle"
    /\ canvas' = << >>
    /\ drawPc' = IF in_menu THEN "menu" ELSE "normal"
    /\ UNCHANGED << stateVars, mutex, serial_handle, clockVars, inputVars, irVars, sinkVars,
                    mainVars >>

\* lines 71-72: s->log_to_file is read and painted
DrawMenu ==
    /\ drawPc = "menu"
    /\ canvas' = << "Config Menu", IF log_to_file THEN "Log ON" ELSE "Log OFF" >>
    /\ drawPc' = "idle"
    /\ UNCHANGED << stateVars, mutex, serial_handle, clockVars, inputVars, irVars, sinkVars,
                    mainVars >>

\* lines 74-78: s->last_rng is read and painted
DrawNormal ==
    /\ drawPc = "normal"
    /\ canvas' = << "Flame Tunnel", format_display(last_rng) >>
    /\ drawPc' = "idle"
    /\ UNCHANGED << stateVars, mutex, serial_handle, clockVars, inputVars, irVars, sinkVars,
                    mainVars >>

----------------------------------------------------------------------------
\* bgw_flipper_ir_serial_app (lines 129-144)

\* lines 104-127: the order in which start-up acquires what the shutdown
\* releases: furi_mutex_alloc (108), the serial handle (114-116), the view
\* port (118-123), the infrared worker (125-127)
AcquireOrder == << "mutex", "serial", "view_port", "worker" >>

\* lines 114-116: the serial handle is acquired and initialised. The result of
\* furi_hal_serial_control_acquire is not looked at: when it is null (the
\* USART is in use) line 116 is called with the null handle, which halts the
\* application there or has no effect
StartSerial ==
    /\ mainPc = "start_serial"
    /\ \E acquired \in BOOLEAN :
          IF acquired
          THEN /\ serial_handle' = "open"
               /\ mainPc' = "start_vp"
          ELSE /\ serial_handle' = "null"
               /\ \E halted \in BOOLEAN :
                     mainPc' = IF halted THEN "crashed" ELSE "start_vp"
    /\ UNCHANGED << stateVars, mutex, clockVars, inputVars, irVars, sinkVars, drawVars,
                    workerOn, vpOn, mutexLive, released >>

\* lines 118-123: the view port is allocated, its callbacks are set and it is
\* added to the GUI
StartViewPort ==
    /\ mainPc = "start_vp"
    /\ vpOn' = TRUE
    /\ mainPc' = "start_worker"
    /\ UNCHANGED << stateVars, mutex, serial_handle, clockVars, inputVars, irVars, sinkVars,
                    drawVars, workerOn, mutexLive, released >>

\* lines 125-127: the infrared worker is allocated, its callback is set and
\* reception starts
StartWorker ==
    /\ mainPc = "start_worker"
    /\ workerOn' = TRUE
    /\ mainPc' = "loop"
    /\ UNCHANGED << stateVars, mutex, serial_handle, clockVars, inputVars, irVars, sinkVars,
                    drawVars, vpOn, mutexLive, released >>

\* lines 129-131: running is true; view_port_update asks for a redraw, which
\* the dispatcher performs on its own thread (DrawBegin), and the loop sleeps
MainLoop ==
    /\ mainPc = "loop"
    /\ running
    /\ UNCHANGED vars

\* line 129: running is false, the loop is left
MainExit ==
    /\ mainPc = "loop"
    /\ ~running
    /\ mainPc' = "serial_deinit"
    /\ UNCHANGED << stateVars, mutex, serial_handle, clockVars, inputVars, irVars, sinkVars,
                    drawVars, workerOn, vpOn, mutexLive, released >>

\* lines 134-135: the serial handle is deinitialised and released
MainSerialDeinit ==
    /\ mainPc = "serial_deinit"
    /\ serial_handle' = "released"
    /\ released' = Append(released, "serial")
    /\ mainPc' = "ir_stop"
    /\ UNCHANGED << stateVars, mutex, clockVars, inputVars, irVars, sinkVars,
                    drawVars, workerOn, vpOn, mutexLive >>

\* lines 137-138: the worker is stopped (a callback in progress ends first)
\* and freed
MainIrStop ==
    /\ mainPc = "ir_stop"
    /\ irPc = "idle"
    /\ workerOn' = FALSE
    /\ released' = Append(released, "worker")
    /\ mainPc' = "vp_remove"
    /\ UNCHANGED << stateVars, mutex, serial_handle, clockVars, inputVars, irVars, sinkVars,
                    drawVars, vpOn, mutexLive >>

\* lines 139-140: the view port is removed (a callback in progress ends
\* first) and freed
MainVpRemove ==
    /\ mainPc = "vp_remove"
    /\ drawPc = "idle"
    /\ vpOn' = FALSE
    /\ released' = Append(released, "view_port")
    /\ mainPc' = "mutex_free"
    /\ UNCHANGED << stateVars, mutex, serial_handle, clockVars, inputVars, irVars, sinkVars,
                    drawVars, workerOn, mutexLive >>

\* lines 141-144: the mutex is freed and the application returns
MainMutexFree ==
    /\ mainPc = "mutex_free"
    /\ mutexLive' = FALSE
    /\ released' = Append(released, "mutex")
    /\ mainPc' = "done"
    /\ UNCHANGED << stateVars, mutex, serial_handle, clockVars, inputVars, irVars, sinkVars,
                    drawVars, workerOn, vpOn >>

\* Every handler and the application thread, with the tick counter standing
\* still
Next ==
    \/ Input
    \/ IrSignal \/ IrAcquire \/ IrTx \/ IrTxReleased \/ IrLog \/ IrStore \/ IrRelease
    \/ DrawBegin \/ DrawMenu \/ DrawNormal
    \/ MainLoop \/ MainExit \/ MainSerialDeinit \/ MainIrStop \/ MainVpRemove
    \/ MainMutexFree

Spec == Init /\ [][Next]_vars

\* The input handler and the application thread as the tick counter advances
NextInput ==
    \/ Tick
    \/ Input
    \/ MainLoop \/ MainExit \/ MainSerialDeinit \/ MainIrStop \/ MainVpRemove
    \/ MainMutexFree

SpecInput == Init /\ [][NextInput]_vars

\* The infrared callback, the input handler and the application thread, with
\* the tick counter standing still and nothing drawn
NextIr ==
    \/ Input
    \/ IrSignalLog \/ IrAcquire \/ IrTx \/ IrTxReleased \/ IrLog \/ IrStore \/ IrRelease
    \/ MainLoop \/ MainExit \/ MainSerialDeinit \/ MainIrStop \/ MainVpRemove
    \/ MainMutexFree

SpecIr == Init /\ [][NextIr]_vars

\* The application from line 114 on, with the handlers that run once the view
\* port and the worker are there; the tick counter stands still and nothing
\* is drawn
NextStartup ==
    \/ StartSerial \/ StartViewPort \/ StartWorker
    \/ Input
    \/ IrSignal \/ IrAcquire \/ IrTx \/ IrTxReleased \/ IrLog \/ IrStore \/ IrRelease
    \/ MainLoop \/ MainExit \/ MainSerialDeinit \/ MainIrStop \/ MainVpRemove
    \/ MainMutexFree

SpecStartup == InitStartup /\ [][NextStartup]_vars

\* generate_rng alone, over a wider range of signals and hardware reads
IrSignalMix == IrSignalFrom(MixSignals, MixSeeds, MixCycs)

SpecMix == Init /\ [][IrSignalMix]_vars

----------------------------------------------------------------------------
\* Steps and shorthands the properties speak of

ReleaseBack == [type |-> "Release", key |-> "Back"]
ReleaseOk == [type |-> "Release", key |-> "Ok"]
PressBack == [type |-> "Press", key |-> "Back"]
PressOk == [type |-> "Press", key |-> "Ok"]

\* A step of input_cb that changed something: ev' is the event it handled
InputStep ==
    /\ vars' # vars
    /\ irPc' = irPc
    /\ drawPc' = drawPc
    /\ mainPc' = mainPc
    /\ advances' = advances

\* A step of draw: each one reads a field of the shared state
DrawStep == drawPc' # drawPc

\* The infrared callback is between furi_mutex_acquire and furi_mutex_release
IrInCritical == irPc \in {"tx", "log", "store", "release"}

\* Time that really elapsed since key k was pressed
Elapsed(k) == clock - pressClock[k]

----------------------------------------------------------------------------
\* C1: every write of running, in_menu, log_to_file or last_rng is made by a
\* handler that holds the mutex at that moment: the input handler holds it
\* when it writes running, in_menu or log_to_file, the infrared handler holds
\* it when it writes last_rng.
C1_WritesHoldTheLock ==
    [][ /\ (running' # running \/ in_menu' # in_menu \/ log_to_file' # log_to_file)
            => mutex = "input"
        /\ (last_rng' # last_rng) => mutex = "ir" ]_vars

\* C2: every read of the shared state that draw makes happens while no writer
\* is inside its critical section.
C2_DrawReadsOutsideCriticalSections ==
    [][ DrawStep => mutex = "none" ]_vars

\* C3: a release of a key that is not pressed (never pressed, or released
\* since its last press) leaves running, in_menu, log_to_file and last_rng
\* unchanged, whatever the tick.
C3_SpuriousReleaseIgnored ==
    [][ (InputStep /\ gesture' = "spurious")
            => UNCHANGED << running, in_menu, log_to_file, last_rng >> ]_vars

\* C4: once running is false it is false in every later state.
C4_RunningStaysFalse ==
    [][ running = FALSE => running' = FALSE ]_vars

\* C4 witness: the application has ended with running false, and the last
\* input event handled was a press that came after the shutdown request.
C4_Witness ==
    /\ running = FALSE
    /\ ev = PressBack
    /\ gesture = "press"
    /\ mainPc = "done"

\* C5: the release of a pressed key is held exactly when at least 1000 ms
\* elapsed since the press: then Back sets running false and Ok toggles
\* in_menu; below 1000 ms Back leaves running and Ok leaves in_menu as they
\* were. Back never changes in_menu and Ok never changes running.
C5_HeldIffThresholdReached ==
    [][ (InputStep /\ ev'.type = "Release" /\ ev'.key \in TrackedKeys /\ keyDown[ev'.key])
            => LET held == Elapsed(ev'.key) >= 1000
               IN /\ ev'.key = "Back" =>
                        /\ running' = (IF held THEN FALSE ELSE running)
                        /\ in_menu' = in_menu
                  /\ ev'.key = "Ok" =>
                        /\ in_menu' = (IF held THEN ~in_menu ELSE in_menu)
                        /\ running' = running ]_vars

\* C5 witness: Back was released exactly 1000 ms after its press, across the
\* wrap of the tick counter, and running is false.
C5_Witness ==
    /\ ev = ReleaseBack
    /\ gesture = "held"
    /\ Elapsed("Back") = 1000
    /\ Geq32(back_pressed_time, furi_get_tick)
    /\ back_pressed_time # furi_get_tick
    /\ running = FALSE

\* C6: a press changes the press record of its own key only, to the tick of
\* the press.
C6_PressOnlyRecords ==
    [][ (InputStep /\ ev'.type = "Press")
            => /\ UNCHANGED << running, in_menu, log_to_file, last_rng >>
               /\ ev'.key = "Back" =>
                     /\ back_pressed_time' = furi_get_tick
                     /\ ok_pressed_time' = ok_pressed_time
               /\ ev'.key = "Ok" =>
                     /\ ok_pressed_time' = furi_get_tick
                     /\ back_pressed_time' = back_pressed_time ]_vars

\* C6 witness: Ok was pressed in menu mode at a later tick than Back was, and
\* the mode and Back's record are still there.
C6_Witness ==
    /\ ev = PressOk
    /\ gesture = "press"
    /\ ok_pressed_time = furi_get_tick
    /\ back_pressed_time # ok_pressed_time
    /\ back_pressed_time # U32(0)
    /\ in_menu

\* C7: an input event handled in normal mode leaves log_to_file unchanged.
C7_NoLoggingToggleInNormalMode ==
    [][ (InputStep /\ ~in_menu) => log_to_file' = log_to_file ]_vars

\* C7 witness: logging was switched on in menu mode, the mode went back to
\* normal, and a short Ok release was then handled with logging still on.
C7_Witness ==
    /\ ev = ReleaseOk
    /\ gesture = "short"
    /\ ~in_menu
    /\ log_to_file

----------------------------------------------------------------------------
\* C8: the value generate_rng returns, computed a second way

HalfBit(n, i) == (n \div (2 ^ i)) % 2

RECURSIVE HalfXorFrom(_, _, _)
HalfXorFrom(a, b, i) ==
    IF i = HALF_BITS THEN 0
    ELSE (IF HalfBit(a, i) = HalfBit(b, i) THEN 0 ELSE 2 ^ i) + HalfXorFrom(a, b, i + 1)

ExpectedXor(a, b) == << HalfXorFrom(a[1], b[1], 0), HalfXorFrom(a[2], b[2], 0) >>

\* p + i in 32 bits, for a small index i
ExpectedPlusIndex(p, i) ==
    << (p[1] + ((p[2] + i) \div HALF_MOD)) % HALF_MOD, (p[2] + i) % HALF_MOD >>

RECURSIVE ExpectedMix(_, _, _)
ExpectedMix(p, hw, cyc) ==
    IF p = << >> THEN ExpectedXor(hw, cyc)
    ELSE LET n == Len(p)
         IN ExpectedXor(ExpectedMix(SubSeq(p, 1, n - 1), hw, cyc),
                        ExpectedPlusIndex(p[n], n - 1))

\* C8: generate_rng returns hw XOR cyc folded left to right with
\* XOR (p[i] + i) in 32-bit arithmetic; hw XOR cyc for the empty signal; and
\* 4154 for pulses 100, 200, 150 with hw 0x1000 and cyc 0x0F.
C8_MixIsTheFold ==
    irPc # "idle" =>
        /\ irRng = ExpectedMix(irSig, irHw, irCyc)
        /\ irSig = << >> => irRng = ExpectedXor(irHw, irCyc)
        /\ (irSig = << U32(100), U32(200), U32(150) >> /\ irHw = U32(4096) /\ irCyc = U32(15))
              => irRng = U32(4154)

\* C8 witness: the hand-computed case has been mixed.
C8_Witness ==
    /\ irPc = "acquire"
    /\ irSig = << U32(100), U32(200), U32(150) >>
    /\ irHw = U32(4096)
    /\ irCyc = U32(15)
    /\ irRng = U32(4154)

----------------------------------------------------------------------------
\* C9: the text "RNG:<decimal>\n" read back as a number

DigitValue(c) == CHOOSE d \in 0 .. 9 : DigitChars[d + 1] = c

IsDigit(c) == \E d \in 0 .. 9 : DigitChars[d + 1] = c

\* 10 * a + d in 32 bits
TimesTenPlus(a, d) ==
    LET lo == (a[2] * 10) + d
        hi == (a[1] * 10) + (lo \div HALF_MOD)
    IN << hi % HALF_MOD, lo % HALF_MOD >>

RECURSIVE ParseDecimal(_)
ParseDecimal(s) ==
    IF s = << >> THEN U32(0)
    ELSE TimesTenPlus(ParseDecimal(SubSeq(s, 1, Len(s) - 1)), DigitValue(s[Len(s)]))

IsRecordOf(buf, value) ==
    /\ Len(buf) >= 6
    /\ SubSeq(buf, 1, 4) = << "R", "N", "G", ":" >>
    /\ buf[Len(buf)] = "\n"
    /\ LET digits == SubSeq(buf, 5, Len(buf) - 1)
       IN /\ \A i \in 1 .. Len(digits) : IsDigit(digits[i])
          /\ Len(digits) > 1 => digits[1] # "0"
          /\ ParseDecimal(digits) = value

\* C9: each infrared event puts exactly one buffer into the serial output,
\* the text "RNG:<value>\n" of the value mixed for it, and last_rng holds that
\* value when the event releases the mutex.
C9_OneRecordPerEvent ==
    /\ Len(serialOut) = (IF irPc \in {"idle", "log", "store", "release"}
                         THEN irEvents ELSE irEvents - 1)
    /\ irPc \in {"log", "store", "release"} => IsRecordOf(serialOut[Len(serialOut)], irRng)
    /\ irPc = "release" => last_rng = irRng

----------------------------------------------------------------------------
\* C10: an Ok release that is held toggles in_menu and changes neither
\* log_to_file nor running nor last_rng.
C10_OkHeldTogglesModeOnly ==
    [][ (InputStep /\ ev' = ReleaseOk /\ keyDown["Ok"] /\ Elapsed("Ok") >= 1000)
            => /\ in_menu' = ~in_menu
               /\ UNCHANGED << log_to_file, running, last_rng >> ]_vars

\* C10 witness: Ok pressed at tick 0 and released at tick 1000 in normal mode:
\* the mode is menu and logging is off as before.
C10_Witness ==
    /\ startTick = U32(0)
    /\ ev = ReleaseOk
    /\ gesture = "held"
    /\ pressClock["Ok"] = 0
    /\ ok_pressed_time = U32(0)
    /\ furi_get_tick = U32(1000)
    /\ in_menu
    /\ ~log_to_file
    /\ running

----------------------------------------------------------------------------
\* Steps of the infrared callback

\* line 42: the buffer is handed to furi_hal_serial_tx
IrTxStep == irPc = "tx" /\ irPc' = "log"

\* lines 44-51: the log file is written or passed over
IrLogStep == irPc = "log" /\ irPc' = "store"

\* line 52: last_rng is assigned
IrStoreStep == irPc = "store" /\ irPc' = "release"

\* line 61: the mutex is released
IrReleaseStep == irPc = "release" /\ irPc' = "idle"

\* The serial output received the buffer of the callback in progress
SerialHasBuf ==
    /\ Len(serialOut) = irEvents
    /\ serialOut[Len(serialOut)] = irBuf

----------------------------------------------------------------------------
\* C11: in menu mode a short Ok release flips log_to_file; an infrared event
\* writes its buffer to the log file exactly when log_to_file is true as it
\* reaches line 44; and an event that finds log_to_file true has written the
\* same buffer to the serial output as well.
C11_LoggingGatesTheLogWrite ==
    [][ /\ (InputStep /\ ev' = ReleaseOk /\ keyDown["Ok"] /\ Elapsed("Ok") < HOLD_TIME_MS
              /\ in_menu)
            => log_to_file' = ~log_to_file
        /\ IrLogStep
            => /\ (irLog' # "skipped") <=> log_to_file
               /\ irLog' = "written" => SubSeq(logFile', 1, Len(irBuf)) = irBuf
               /\ irLog' = "skipped" => logFile' = logFile
               /\ log_to_file => SerialHasBuf ]_vars

----------------------------------------------------------------------------
\* C12: the log file only grows by whole records: an infrared event that
\* writes the log appends its buffer to what the file held, no step changes or
\* removes what the file held before, and nothing else writes the file.
C12_LogIsAppendOnly ==
    [][ /\ (IrLogStep /\ irLog' = "written") => logFile' = logFile \o irBuf
        /\ ~(IrLogStep /\ irLog' = "written") => logFile' = logFile ]_vars

----------------------------------------------------------------------------
\* C13: when the log file cannot be opened or written for an infrared event,
\* the event goes on inside its critical section: nothing is left open,
\* running is not changed by the callback, its next step can always be taken,
\* line 52 stores the event's value and line 61 releases the mutex, after
\* which last_rng holds that value and the next event can take the mutex.
C13_LogFailureCompletes ==
    /\ [](irLog = "failed"
            => \/ irPc = "store" /\ mutex = "ir" /\ ENABLED IrStore
               \/ irPc = "release" /\ mutex = "ir" /\ last_rng = irRng /\ ENABLED IrRelease)
    /\ [][ /\ (IrLogStep /\ irLog' = "failed")
               => /\ irPc' = "store"
                  /\ running' = running
                  /\ logRes'.file = 0
           /\ irLog = "failed" => running' = running \/ InputStep
           /\ (irLog = "failed" /\ IrReleaseStep)
               => /\ mutex' = "none"
                  /\ last_rng' = lastTx'
                  /\ irPc' = "idle" ]_vars

\* C13 witness: an event whose log file did not open is about to release the
\* mutex, last_rng holding its value and the application running.
C13_Witness ==
    /\ irLog = "failed"
    /\ irPc = "release"
    /\ mutex = "ir"
    /\ last_rng = irRng
    /\ irRng # U32(0)
    /\ running
    /\ logFile = << >>

----------------------------------------------------------------------------
\* C14: within one infrared event the value is handed to the serial output,
\* and the log file is dealt with, before line 52 assigns last_rng, all three
\* between one acquisition of the mutex and its release; last_rng is assigned
\* nowhere else; so whenever the mutex is free last_rng is the value last
\* handed to the serial output, or 0 when none was.
C14_StoreFollowsTheWrites ==
    /\ [](mutex = "none" => last_rng = (IF lastTx = << >> THEN U32(0) ELSE lastTx))
    /\ [][ /\ last_rng' # last_rng => IrStoreStep
           /\ IrStoreStep
               => /\ lastTx = irRng
                  /\ irLog \in {"skipped", "written", "failed"}
                  /\ last_rng' = lastTx
           /\ (IrTxStep \/ IrLogStep \/ IrStoreStep) => mutex = "ir" /\ mutex' = "ir"
           /\ IrTxStep => irLog = "none" /\ lastTx' = irRng
           /\ IrLogStep => lastTx = irRng ]_vars

\* C14 witness: the second event has stored its value after writing it to the
\* serial output and to the log file, and has released the mutex.
C14_Witness ==
    /\ mutex = "none"
    /\ irPc = "idle"
    /\ irEvents = 2
    /\ Len(serialOut) = 2
    /\ logFile # << >>
    /\ lastTx = U32(4111)
    /\ last_rng = U32(4111)

----------------------------------------------------------------------------
\* C15: in no interleaving of the shutdown sequence with an infrared callback
\* does the callback hand a buffer to furi_hal_serial_tx after the serial
\* handle was deinitialised and released, or acquire the mutex after it was
\* freed.
C15_WorkerStoppedBeforeTeardown ==
    [][ /\ IrTxStep => serial_handle = "open"
        /\ (irPc = "acquire" /\ irPc' = "tx") => mutexLive ]_vars

----------------------------------------------------------------------------
Reverse(seq) == [i \in 1..Len(seq) |-> seq[Len(seq) + 1 - i]]

\* C16: after running became false the application releases each resource it
\* acquired (mutex, serial handle, view port, infrared worker) exactly once,
\* in the reverse of the order of their acquisition, and then returns.
C16_ReleasedInReverseOrder ==
    /\ released # << >> => ~running
    /\ \A i, j \in DOMAIN released : released[i] = released[j] => i = j
    /\ \A i \in DOMAIN released : released[i] = Reverse(AcquireOrder)[i]
    /\ mainPc = "done" => Len(released) = Len(AcquireOrder)

----------------------------------------------------------------------------
\* C17: once running is false no further event is taken up: an input event
\* handled after that changes neither in_menu nor log_to_file, no callback of
\* the infrared worker starts after that, and last_rng, the serial output and
\* the log file change only in a callback that had started before.
C17_NoEventsAfterShutdown ==
    [][ /\ (~running /\ InputStep) => UNCHANGED << in_menu, log_to_file >>
        /\ ~running => ~(irPc = "idle" /\ irPc' = "acquire")
        /\ (~running /\ irPc = "idle") => UNCHANGED << last_rng, serialOut, logFile >> ]_vars

----------------------------------------------------------------------------
\* C19: what an infrared event opens or allocates for logging (the storage
\* record, the file, the stream) is closed and released before the event
\* releases the mutex, whether or not the file opened: whenever the mutex is
\* free, and when the callback is about to release it, none is outstanding.
C19_NoLogHandleOutlivesTheEvent ==
    (mutex = "none" \/ irPc = "release")
        => logRes = [storage |-> 0, file |-> 0, stream |-> 0]

----------------------------------------------------------------------------
\* The tick counter wrapped around 2^32 since key k was pressed: the tick now
\* is below the tick of the press
Wrapped(k) ==
    /\ keyDown[k]
    /\ ~Geq32(furi_get_tick, Add32(startTick, U32(pressClock[k])))

PressedTime(k) == IF k = "Back" THEN back_pressed_time ELSE ok_pressed_time

\* C20: when the tick counter wrapped between the press of a key and its
\* release, the 32-bit difference now - pressed_time is still the time that
\* elapsed, and the release is held exactly when that time is at least
\* 1000 ms: Back then sets running false, Ok toggles in_menu, and a shorter Ok
\* in menu mode toggles log_to_file.
C20_WrapKeepsElapsedTime ==
    [][ (InputStep /\ ev'.type = "Release" /\ ev'.key \in TrackedKeys /\ Wrapped(ev'.key))
            => LET k == ev'.key
                   held == Elapsed(k) >= HOLD_TIME_MS
               IN /\ Sub32(furi_get_tick, PressedTime(k)) = U32(Elapsed(k))
                  /\ running' = (IF k = "Back" /\ held THEN FALSE ELSE running)
                  /\ in_menu' = (IF k = "Ok" /\ held THEN ~in_menu ELSE in_menu)
                  /\ log_to_file' = (IF k = "Ok" /\ ~held /\ in_menu
                                     THEN ~log_to_file ELSE log_to_file) ]_vars

\* C20 witness: Ok was pressed 500 ms before the counter wrapped and released
\* at tick 500, 1000 ms later: the release was held and the mode is menu.
C20_Witness ==
    /\ ev = ReleaseOk
    /\ ok_pressed_time = << HALF_MOD - 1, HALF_MOD - 500 >>
    /\ furi_get_tick = U32(500)
    /\ pressClock["Ok"] = 0
    /\ clock = 1000
    /\ in_menu
    /\ running

----------------------------------------------------------------------------
\* C18: when the acquisition of the serial handle fails at start-up, the
\* start-up goes no further: the view port and the infrared worker are never
\* set up with their callbacks, the main loop is never entered, and when the
\* application has stopped the mutex it had allocated is freed.
C18_FailedStartupAborts ==
    serial_handle = "null"
        => /\ mainPc \notin {"start_vp", "start_worker", "loop"}
           /\ ~vpOn
           /\ ~workerOn
           /\ mainPc \in {"crashed", "done"} => ~mutexLive

====
